---- MODULE Spec2Model ----
(***************************************************************************)
(* GameCounter (src/main.py): the Game session model, the games.json       *)
(* store and the HomeScreen / GameScreen handlers that drive them.         *)
(*                                                                         *)
(* A Python dict is a sequence of [key, value] entries with distinct keys  *)
(* in insertion order.  A Python str is a TLA+ string.  The clock is the   *)
(* number of seconds since midnight of a fixed day.                        *)
(***************************************************************************)
EXTENDS Integers, Sequences, FiniteSets, TLC

\* ------------------------------------------------------------------ bounds
MaxGames == 3
MaxPlayers == 2
MaxStoredPlayers == 1
MaxScore == 1
MaxPending == 5
MaxClock == 60

\* ------------------------------------------------------- user text inputs
PlayerNameInputs == {" ", " Player 2"}
GameNameInputs == {" ", "Friday "}
CustomInputs == {"", "4", "-4", "abc"}
AdjustValues == {-100, -25, -5, 5, 25, 100}
ClockSteps == {30}
StartClocks == {30}
GamePlayerNames == {"Ann", "Bob", "Cy"}
GameDeltas == {-2, -1, 1, 2}

\* ------------------------------------------------------------ Python str
RECURSIVE lstrip(_)
lstrip(s) ==
    IF Len(s) > 0 /\ SubSeq(s, 1, 1) = " " THEN lstrip(SubSeq(s, 2, Len(s))) ELSE s

RECURSIVE rstrip(_)
rstrip(s) ==
    IF Len(s) > 0 /\ SubSeq(s, Len(s), Len(s)) = " "
    THEN rstrip(SubSeq(s, 1, Len(s) - 1))
    ELSE s

strip(s) == rstrip(lstrip(s))

DigitValue(c) ==
    CASE c = "0" -> 0 [] c = "1" -> 1 [] c = "2" -> 2 [] c = "3" -> 3 [] c = "4" -> 4
      [] c = "5" -> 5 [] c = "6" -> 6 [] c = "7" -> 7 [] c = "8" -> 8 [] c = "9" -> 9
      [] OTHER -> -1

IsDigits(s) ==
    Len(s) > 0 /\ \A i \in 1..Len(s) : DigitValue(SubSeq(s, i, i)) >= 0

RECURSIVE DigitsValue(_)
DigitsValue(s) ==
    IF Len(s) = 0 THEN 0
    ELSE 10 * DigitsValue(SubSeq(s, 1, Len(s) - 1)) + DigitValue(SubSeq(s, Len(s), Len(s)))

\* int(text): an optional sign and decimal digits, ValueError otherwise.
int_ok(s) ==
    IF Len(s) > 0 /\ SubSeq(s, 1, 1) \in {"-", "+"}
    THEN IsDigits(SubSeq(s, 2, Len(s)))
    ELSE IsDigits(s)

int(s) ==
    IF SubSeq(s, 1, 1) = "-" THEN 0 - DigitsValue(SubSeq(s, 2, Len(s)))
    ELSE IF SubSeq(s, 1, 1) = "+" THEN DigitsValue(SubSeq(s, 2, Len(s)))
    ELSE DigitsValue(s)

str(n) == ToString(n)

\* ------------------------------------------------------- datetime formats
Pad2(n) == IF n < 10 THEN "0" \o ToString(n) ELSE ToString(n)

Today == "2024-01-01"

\* strftime("%Y-%m-%d %H:%M:%S")
strftime_seconds(t) ==
    Today \o " " \o Pad2(t \div 3600) \o ":" \o Pad2((t \div 60) % 60) \o ":" \o Pad2(t % 60)

\* strftime('%Y-%m-%d %H:%M'): the seconds are dropped.
strftime_minutes(t) ==
    Today \o " " \o Pad2(t \div 3600) \o ":" \o Pad2((t \div 60) % 60)

\* strptime(s, "%Y-%m-%d %H:%M:%S") as a sort key.
strptime(s) ==
    3600 * DigitsValue(SubSeq(s, 12, 13)) + 60 * DigitsValue(SubSeq(s, 15, 16))
        + DigitsValue(SubSeq(s, 18, 19))

\* ----------------------------------------------------------- Python dict
Keys(d) == {d[i].key : i \in DOMAIN d}

Has(d, k) == k \in Keys(d)

Get(d, k) == d[CHOOSE i \in DOMAIN d : d[i].key = k].value

RECURSIVE DictDel(_, _)
DictDel(d, k) ==
    IF d = <<>> THEN <<>>
    ELSE IF Head(d).key = k THEN DictDel(Tail(d), k)
    ELSE <<Head(d)>> \o DictDel(Tail(d), k)

\* d[k] = v: an existing key keeps its position, a new key goes last.
DictSet(d, k, v) ==
    IF Has(d, k)
    THEN [i \in DOMAIN d |-> IF d[i].key = k THEN [key |-> k, value |-> v] ELSE d[i]]
    ELSE Append(d, [key |-> k, value |-> v])

\* sum(d.values())
RECURSIVE sum_values(_)
sum_values(d) == IF d = <<>> THEN 0 ELSE Head(d).value + sum_values(Tail(d))

\* ------------------------------------------------------------------ Game
\* A method that can raise gives [raised, players]: the exception ("" for
\* none) and the players dict when the call ends.
AlreadyExists(player_name) == "ValueError: Player '" \o player_name \o "' already exists."

DoesNotExist(player_name) == "ValueError: Player '" \o player_name \o "' does not exist."

Game_init(name, timestamp, players, now) ==
    [name |-> name,
     timestamp |-> IF timestamp = "" THEN strftime_seconds(now) ELSE timestamp,
     players |-> players]

\* Game.add_player without its test: the name is set to 0 whether or not it
\* is there.
Game_add_player_unchecked(players, player_name) ==
    [raised |-> "", players |-> DictSet(players, player_name, 0)]

Game_add_player(players, player_name) ==
    IF Has(players, player_name)
    THEN [raised |-> AlreadyExists(player_name), players |-> players]
    ELSE [raised |-> "", players |-> DictSet(players, player_name, 0)]

Game_remove_player(players, player_name) ==
    IF Has(players, player_name) THEN DictDel(players, player_name) ELSE players

Game_update_score(players, player_name, delta) ==
    IF ~Has(players, player_name)
    THEN [raised |-> DoesNotExist(player_name), players |-> players]
    ELSE [raised |-> "",
          players |-> DictSet(players, player_name, Get(players, player_name) + delta)]

\* get_total_score that leaves out the scores below zero.
RECURSIVE sum_positive_values(_)
sum_positive_values(d) ==
    IF d = <<>> THEN 0
    ELSE (IF Head(d).value > 0 THEN Head(d).value ELSE 0) + sum_positive_values(Tail(d))

Game_get_total_score_positive(players) == sum_positive_values(players)

Game_get_total_score(players) == sum_values(players)

Game_to_dict(game) ==
    [name |-> game.name, timestamp |-> game.timestamp, players |-> game.players]

Game_from_dict(data, now) == Game_init(data.name, data.timestamp, data.players, now)

\* ----------------------------------------------------------- games.json
\* What games.json holds: nothing ("absent"), text that is not JSON
\* ("truncated"), JSON whose records lack a key from_dict reads ("foreign"),
\* or the list save_games wrote ("games").
NoFile == [kind |-> "absent", games |-> <<>>]

TruncatedFile == [kind |-> "truncated", games |-> <<>>]

ForeignFile == [kind |-> "foreign", games |-> <<>>]

\* load_games gives [raised, games]: FileNotFoundError and JSONDecodeError
\* are caught and give []; the KeyError of from_dict is not caught.
load_games(f, now) ==
    IF f.kind = "games"
    THEN [raised |-> "", games |-> [i \in DOMAIN f.games |-> Game_from_dict(f.games[i], now)]]
    ELSE IF f.kind = "foreign"
    THEN [raised |-> "KeyError", games |-> <<>>]
    ELSE [raised |-> "", games |-> <<>>]

save_games(games) ==
    [kind |-> "games", games |-> [i \in DOMAIN games |-> Game_to_dict(games[i])]]

\* sorted(games, key=strptime(timestamp), reverse=True): stable, so games
\* with equal timestamps keep their order.
InsertByTimestamp(acc, g) ==
    LET n == Cardinality({i \in DOMAIN acc :
                             strptime(acc[i].timestamp) >= strptime(g.timestamp)})
    IN SubSeq(acc, 1, n) \o <<g>> \o SubSeq(acc, n + 1, Len(acc))

RECURSIVE sorted_games(_)
sorted_games(games) ==
    IF games = <<>> THEN <<>>
    ELSE InsertByTimestamp(sorted_games(SubSeq(games, 1, Len(games) - 1)),
                           games[Len(games)])

\* ------------------------------------------------------------- the state
\* file: games.json.  clock: the wall clock.  screen: the ScreenManager's
\* current screen ("none" before build).  raised: the exception that left a
\* handler and ended the app ("" while it runs).  home_games: the games
\* behind the HomeScreen buttons, as load_previous_games read them.
\* current_game: GameScreen.current_game, <<>> for None.
\* total_score_label, player_list: GameScreen widgets.  popup: the open
\* Popup with its widgets and closure variables.  last_save: a history
\* variable, the handler that wrote games.json in the last step and the
\* number of sessions it had loaded; NoSave when the last step wrote nothing.
VARIABLES file, clock, screen, raised, home_games, current_game,
          total_score_label, player_list, popup, last_save

vars == <<file, clock, screen, raised, home_games, current_game,
          total_score_label, player_list, popup, last_save>>

NoPopup ==
    [kind |-> "none", player_name |-> "", name_input |-> "", error_label |-> "",
     starting_score |-> 0, current_score |-> 0, custom_input |-> ""]

NoSave == [handler |-> "", stored |-> 0]

InitialFiles == {NoFile, TruncatedFile, ForeignFile}

Init ==
    /\ file \in InitialFiles
    /\ clock \in StartClocks
    /\ screen = "none"
    /\ raised = ""
    /\ home_games = <<>>
    /\ current_game = <<>>
    /\ total_score_label = "Total: 0"
    /\ player_list = <<>>
    /\ popup = NoPopup
    /\ last_save = NoSave

Running == screen # "none" /\ raised = ""

OnHome == Running /\ screen = "home" /\ popup.kind = "none"

OnGame == Running /\ screen = "game_screen" /\ popup.kind = "none"

Cur == current_game[1]

\* The banner add_player_banner builds: the name its buttons are bound to
\* and the text of its score label.
Banner(player_name, score) == [name |-> player_name, score_label |-> str(score)]

Banners(players) == [i \in DOMAIN players |-> Banner(players[i].key, players[i].value)]

\* HomeScreen.load_previous_games, when load_games does not raise.
HomeScreen_load_previous_games(f, now) == sorted_games(load_games(f, now).games)

\* GameScreen.load_game
GameScreen_load_game(game) ==
    /\ current_game' = <<game>>
    /\ total_score_label' = "Total: " \o str(Game_get_total_score(game.players))
    /\ player_list' = Banners(game.players)

\* An exception leaves the handler: the app ends with its state as it is.
Raise(exception) == raised' = exception

Saved(handler, games) == last_save' = [handler |-> handler, stored |-> Len(games)]

NotSaved == last_save' = NoSave

\* ----------------------------------------------------------- environment
Tick ==
    /\ \E d \in ClockSteps : clock + d <= MaxClock /\ clock' = clock + d
    /\ UNCHANGED <<file, screen, raised, home_games, current_game,
                   total_score_label, player_list, popup>>
    /\ NotSaved

\* CardGameApp.build, on launch and on every launch after the app ended.
CardGameApp_build ==
    /\ ~Running
    /\ current_game' = <<>>
    /\ total_score_label' = "Total: 0"
    /\ player_list' = <<>>
    /\ popup' = NoPopup
    /\ IF load_games(file, clock).raised # ""
       THEN /\ Raise(load_games(file, clock).raised)
            /\ screen' = "none"
            /\ home_games' = <<>>
       ELSE /\ raised' = ""
            /\ screen' = "home"
            /\ home_games' = HomeScreen_load_previous_games(file, clock)
    /\ UNCHANGED <<file, clock>>
    /\ NotSaved

\* ------------------------------------------------------------ HomeScreen
new_game_name(existing_names, now) ==
    IF "New Game" \in existing_names
    THEN "New Game" \o " " \o strftime_minutes(now)
    ELSE "New Game"

HomeScreen_start_new_game ==
    /\ OnHome
    /\ LET loaded == load_games(file, clock)
           games == loaded.games
           existing_names == {games[i].name : i \in DOMAIN games}
           new_game == Game_init(new_game_name(existing_names, clock), "", <<>>, clock)
       IN IF loaded.raised # ""
          THEN /\ Raise(loaded.raised)
               /\ UNCHANGED <<file, screen, current_game, total_score_label,
                              player_list>>
               /\ NotSaved
          ELSE /\ Len(games) < MaxGames
               /\ file' = save_games(Append(games, new_game))
               /\ Saved("start_new_game", games)
               /\ GameScreen_load_game(new_game)
               /\ screen' = "game_screen"
               /\ raised' = raised
    /\ UNCHANGED <<clock, home_games, popup>>

\* HomeScreen.load_game, from the button of a previous game.
HomeScreen_load_game ==
    /\ OnHome
    /\ \E i \in DOMAIN home_games : GameScreen_load_game(home_games[i])
    /\ screen' = "game_screen"
    /\ UNCHANGED <<file, clock, raised, home_games, popup>>
    /\ NotSaved

\* Entering the home screen: on_pre_enter runs load_previous_games.
EnterHome(f) ==
    /\ screen' = "home"
    /\ home_games' = HomeScreen_load_previous_games(f, clock)

\* ------------------------------------------------------------ GameScreen
\* go_back without its search: the current game is always appended.
upsert_always_appends(games, game) == Append(games, game)

\* The for/else of go_back: the first game of that name gets the players of
\* the current game, and without one the current game is appended.
upsert_by_name(games, game) ==
    IF \E i \in DOMAIN games : games[i].name = game.name
    THEN LET first == CHOOSE i \in DOMAIN games :
                         /\ games[i].name = game.name
                         /\ \A j \in 1..(i - 1) : games[j].name # game.name
         IN [games EXCEPT ![first].players = game.players]
    ELSE Append(games, game)

GameScreen_go_back ==
    /\ OnGame
    /\ LET loaded == load_games(file, clock)
           games == upsert_by_name(loaded.games, Cur)
       IN IF loaded.raised # ""
          THEN /\ Raise(loaded.raised)
               /\ UNCHANGED <<file, screen, home_games>>
               /\ NotSaved
          ELSE /\ Len(games) <= MaxGames
               /\ file' = save_games(games)
               /\ Saved("go_back", loaded.games)
               /\ EnterHome(save_games(games))
               /\ raised' = raised
    /\ UNCHANGED <<clock, current_game, total_score_label, player_list, popup>>

\* confirm_delete_game opens the popup; delete_game and cancel_delete are
\* its Yes and No buttons.
GameScreen_confirm_delete_game ==
    /\ OnGame
    /\ popup' = [NoPopup EXCEPT !.kind = "confirm_delete"]
    /\ UNCHANGED <<file, clock, screen, raised, home_games, current_game,
                   total_score_label, player_list>>
    /\ NotSaved

\* A delete that stops at the first game of that name.
RECURSIVE delete_first_by_name(_, _)
delete_first_by_name(games, name) ==
    IF games = <<>> THEN <<>>
    ELSE IF Head(games).name = name THEN Tail(games)
    ELSE <<Head(games)>> \o delete_first_by_name(Tail(games), name)

\* [g for g in games if g.name != name]
delete_by_name(games, name) == SelectSeq(games, LAMBDA g : g.name # name)

delete_game ==
    /\ Running
    /\ popup.kind = "confirm_delete"
    /\ LET loaded == load_games(file, clock)
           games == delete_by_name(loaded.games, Cur.name)
       IN IF loaded.raised # ""
          THEN /\ Raise(loaded.raised)
               /\ UNCHANGED <<file, screen, home_games, popup>>
               /\ NotSaved
          ELSE /\ file' = save_games(games)
               /\ Saved("delete_game", loaded.games)
               /\ EnterHome(save_games(games))
               /\ popup' = NoPopup
               /\ raised' = raised
    /\ UNCHANGED <<clock, current_game, total_score_label, player_list>>

cancel_delete ==
    /\ Running
    /\ popup.kind = "confirm_delete"
    /\ popup' = NoPopup
    /\ UNCHANGED <<file, clock, screen, raised, home_games, current_game,
                   total_score_label, player_list>>
    /\ NotSaved

\* GameScreen.add_player: the name is made from the number of players.
next_player_name(players) == "Player " \o str(Len(players) + 1)

GameScreen_add_player ==
    /\ OnGame
    /\ LET player_name == next_player_name(Cur.players)
           added == Game_add_player(Cur.players, player_name)
       IN IF added.raised # ""
          THEN /\ Raise(added.raised)
               /\ current_game' = <<[Cur EXCEPT !.players = added.players]>>
               /\ UNCHANGED player_list
          ELSE /\ Len(added.players) <= MaxPlayers
               /\ current_game' = <<[Cur EXCEPT !.players = added.players]>>
               /\ player_list' = Append(player_list, Banner(player_name, 0))
               /\ raised' = raised
    /\ UNCHANGED <<file, clock, screen, home_games, total_score_label, popup>>
    /\ NotSaved

\* GameScreen.update_score, from the - and + buttons of a banner.
GameScreen_update_score ==
    /\ OnGame
    /\ \E i \in DOMAIN player_list, delta \in {-1, 1} :
          LET player_name == player_list[i].name
              updated == Game_update_score(Cur.players, player_name, delta)
          IN IF updated.raised # ""
             THEN /\ Raise(updated.raised)
                  /\ current_game' = <<[Cur EXCEPT !.players = updated.players]>>
                  /\ UNCHANGED <<total_score_label, player_list>>
             ELSE /\ Get(updated.players, player_name) \in (0 - MaxScore)..MaxScore
                  /\ GameScreen_load_game([Cur EXCEPT !.players = updated.players])
                  /\ raised' = raised
    /\ UNCHANGED <<file, clock, screen, home_games, popup>>
    /\ NotSaved

\* show_advanced_popup, from the ... button of a banner.
GameScreen_show_advanced_popup ==
    /\ OnGame
    /\ \E i \in DOMAIN player_list :
          LET player_name == player_list[i].name
          IN IF ~Has(Cur.players, player_name)
             THEN /\ Raise("KeyError")
                  /\ UNCHANGED popup
             ELSE /\ popup' = [NoPopup EXCEPT !.kind = "advanced",
                                              !.player_name = player_name,
                                              !.starting_score = Get(Cur.players, player_name),
                                              !.current_score = Get(Cur.players, player_name)]
                  /\ raised' = raised
    /\ UNCHANGED <<file, clock, screen, home_games, current_game,
                   total_score_label, player_list>>
    /\ NotSaved

\* adjust_score, from one of the six buttons of the popup.
adjust_score ==
    /\ Running
    /\ popup.kind = "advanced"
    /\ \E value \in AdjustValues :
          /\ popup.current_score + value \in (0 - MaxPending)..MaxPending
          /\ popup' = [popup EXCEPT !.current_score = @ + value]
    /\ UNCHANGED <<file, clock, screen, raised, home_games, current_game,
                   total_score_label, player_list>>
    /\ NotSaved

\* apply_custom_score, with the text typed into custom_input.  Both int()
\* and Game.update_score raise ValueError into the same except clause.
apply_custom_score ==
    /\ Running
    /\ popup.kind = "advanced"
    /\ \E text \in CustomInputs :
          IF strip(text) # "" /\ ~int_ok(strip(text))
          THEN /\ popup' = [popup EXCEPT !.custom_input = text,
                                         !.error_label = "Enter a valid number!"]
               /\ UNCHANGED <<current_game, total_score_label, player_list>>
          ELSE LET value == IF strip(text) # "" THEN int(strip(text)) ELSE 0
                   current_score == popup.current_score + value
                   updated == Game_update_score(Cur.players, popup.player_name,
                                                current_score - popup.starting_score)
               IN IF updated.raised # ""
                  THEN /\ popup' = [popup EXCEPT !.custom_input = text,
                                                 !.current_score = current_score,
                                                 !.error_label = "Enter a valid number!"]
                       /\ UNCHANGED <<current_game, total_score_label, player_list>>
                  ELSE /\ Get(updated.players, popup.player_name) \in (0 - MaxScore)..MaxScore
                       /\ GameScreen_load_game([Cur EXCEPT !.players = updated.players])
                       /\ popup' = NoPopup
    /\ UNCHANGED <<file, clock, screen, raised, home_games>>
    /\ NotSaved

\* edit_player_name, from the name button of a banner.
GameScreen_edit_player_name ==
    /\ OnGame
    /\ \E i \in DOMAIN player_list :
          popup' = [NoPopup EXCEPT !.kind = "edit_player",
                                   !.player_name = player_list[i].name,
                                   !.name_input = player_list[i].name]
    /\ UNCHANGED <<file, clock, screen, raised, home_games, current_game,
                   total_score_label, player_list>>
    /\ NotSaved

\* set_new_name without its test.
name_taken_unchecked(players, new_name) == FALSE

\* The test of set_new_name that rejects a new name.
name_taken(players, new_name) == Has(players, new_name)

\* players[new_name] = players.pop(player_name)
rename_player(players, player_name, new_name) ==
    DictSet(DictDel(players, player_name), new_name, Get(players, player_name))

\* set_new_name of edit_player_name, with the text left in name_input: the
\* name as it was, or one the user typed.
edit_player_name_set_new_name ==
    /\ Running
    /\ popup.kind = "edit_player"
    /\ \E text \in PlayerNameInputs \cup {popup.player_name} :
          LET new_name == strip(text)
          IN IF new_name = ""
             THEN /\ popup' = [popup EXCEPT !.name_input = text]
                  /\ UNCHANGED <<raised, current_game, total_score_label, player_list>>
             ELSE IF name_taken(Cur.players, new_name)
             THEN /\ popup' = [popup EXCEPT !.name_input = text,
                                            !.error_label = "Player name already exists!"]
                  /\ UNCHANGED <<raised, current_game, total_score_label, player_list>>
             ELSE IF ~Has(Cur.players, popup.player_name)
             THEN /\ Raise("KeyError")
                  /\ popup' = [popup EXCEPT !.name_input = text]
                  /\ UNCHANGED <<current_game, total_score_label, player_list>>
             ELSE /\ GameScreen_load_game(
                         [Cur EXCEPT !.players =
                                 rename_player(Cur.players, popup.player_name, new_name)])
                  /\ popup' = NoPopup
                  /\ raised' = raised
    /\ UNCHANGED <<file, clock, screen, home_games>>
    /\ NotSaved

\* edit_game_name, from the title button.
GameScreen_edit_game_name ==
    /\ OnGame
    /\ popup' = [NoPopup EXCEPT !.kind = "edit_game", !.name_input = Cur.name]
    /\ UNCHANGED <<file, clock, screen, raised, home_games, current_game,
                   total_score_label, player_list>>
    /\ NotSaved

\* set_new_name of edit_game_name: the new name goes to the current game,
\* and the file is written back as it was loaded.
edit_game_name_set_new_name ==
    /\ Running
    /\ popup.kind = "edit_game"
    /\ \E text \in GameNameInputs \cup {popup.name_input} :
          LET new_name == strip(text)
              loaded == load_games(file, clock)
          IN IF new_name = ""
             THEN /\ popup' = NoPopup
                  /\ UNCHANGED <<file, raised, current_game>>
                  /\ NotSaved
             ELSE /\ current_game' = <<[Cur EXCEPT !.name = new_name]>>
                  /\ IF loaded.raised # ""
                     THEN /\ Raise(loaded.raised)
                          /\ popup' = [popup EXCEPT !.name_input = text]
                          /\ UNCHANGED <<file>>
                          /\ NotSaved
                     ELSE /\ file' = save_games(loaded.games)
                          /\ Saved("edit_game_name", loaded.games)
                          /\ popup' = NoPopup
                          /\ raised' = raised
    /\ UNCHANGED <<clock, screen, home_games, total_score_label, player_list>>

\* A touch outside an open Popup dismisses it.
Popup_dismiss ==
    /\ Running
    /\ popup.kind \in {"advanced", "edit_player", "edit_game"}
    /\ popup' = NoPopup
    /\ UNCHANGED <<file, clock, screen, raised, home_games, current_game,
                   total_score_label, player_list>>
    /\ NotSaved

\* ------------------------------------------------------ the application
Next ==
    \/ Tick
    \/ CardGameApp_build
    \/ HomeScreen_start_new_game
    \/ HomeScreen_load_game
    \/ GameScreen_go_back
    \/ GameScreen_confirm_delete_game
    \/ delete_game
    \/ cancel_delete
    \/ GameScreen_add_player
    \/ GameScreen_update_score
    \/ GameScreen_show_advanced_popup
    \/ adjust_score
    \/ apply_custom_score
    \/ GameScreen_edit_player_name
    \/ edit_player_name_set_new_name
    \/ GameScreen_edit_game_name
    \/ edit_game_name_set_new_name
    \/ Popup_dismiss

Spec == Init /\ [][Next]_vars

\* ------------------------------------------------------------ the store
\* The behaviours of Spec in which sessions are started, opened, renamed,
\* given players, saved and deleted, and no score or player name is edited.
\* A stored session holds at most MaxStoredPlayers players here.
StoreAddPlayer ==
    /\ GameScreen_add_player
    /\ Len(Cur.players) < MaxStoredPlayers

StoreNext ==
    \/ Tick
    \/ CardGameApp_build
    \/ HomeScreen_start_new_game
    \/ HomeScreen_load_game
    \/ GameScreen_go_back
    \/ GameScreen_confirm_delete_game
    \/ delete_game
    \/ cancel_delete
    \/ StoreAddPlayer
    \/ GameScreen_edit_game_name
    \/ edit_game_name_set_new_name
    \/ Popup_dismiss

StoreSpec == Init /\ [][StoreNext]_vars

\* ---------------------------------------------------------- one session
\* The behaviours of Spec on the game screen of a session just started on
\* an empty store: players are added and renamed and scores adjusted.
StartedGame(now) == Game_init(new_game_name({}, now), "", <<>>, now)

SessionInit ==
    /\ clock \in StartClocks
    /\ file = save_games(<<StartedGame(clock)>>)
    /\ screen = "game_screen"
    /\ raised = ""
    /\ home_games = <<>>
    /\ current_game = <<StartedGame(clock)>>
    /\ total_score_label = "Total: 0"
    /\ player_list = <<>>
    /\ popup = NoPopup
    /\ last_save = [handler |-> "start_new_game", stored |-> 0]

SessionNext ==
    \/ GameScreen_add_player
    \/ GameScreen_update_score
    \/ GameScreen_show_advanced_popup
    \/ adjust_score
    \/ apply_custom_score
    \/ GameScreen_edit_player_name
    \/ edit_player_name_set_new_name
    \/ Popup_dismiss

SessionSpec == SessionInit /\ [][SessionNext]_vars

\* ------------------------------------------------------- the Game class
\* A Game object and a caller of its methods with any player name and
\* delta; raised is what the last call raised.
GameInit ==
    /\ clock \in StartClocks
    /\ file = NoFile
    /\ screen = "none"
    /\ raised = ""
    /\ home_games = <<>>
    /\ current_game = <<Game_init("New Game", "", <<>>, clock)>>
    /\ total_score_label = "Total: 0"
    /\ player_list = <<>>
    /\ popup = NoPopup
    /\ last_save = NoSave

GameUnchanged ==
    UNCHANGED <<file, clock, screen, home_games, total_score_label, player_list,
                popup, last_save>>

call_add_player ==
    /\ \E player_name \in GamePlayerNames :
          LET added == Game_add_player(Cur.players, player_name)
          IN /\ Len(added.players) <= MaxPlayers
             /\ current_game' = <<[Cur EXCEPT !.players = added.players]>>
             /\ raised' = added.raised
    /\ GameUnchanged

call_remove_player ==
    /\ \E player_name \in GamePlayerNames :
          current_game' =
              <<[Cur EXCEPT !.players = Game_remove_player(Cur.players, player_name)]>>
    /\ raised' = ""
    /\ GameUnchanged

call_update_score ==
    /\ \E player_name \in GamePlayerNames, delta \in GameDeltas :
          LET updated == Game_update_score(Cur.players, player_name, delta)
          IN /\ \A i \in DOMAIN updated.players :
                    updated.players[i].value \in (0 - MaxScore)..MaxScore
             /\ current_game' = <<[Cur EXCEPT !.players = updated.players]>>
             /\ raised' = updated.raised
    /\ GameUnchanged

GameNext ==
    \/ call_add_player
    \/ call_remove_player
    \/ call_update_score

GameSpec == GameInit /\ [][GameNext]_vars

\* ------------------------------------------------------------ the claims
CountNamed(games, name) == Cardinality({i \in DOMAIN games : games[i].name = name})

RECURSIVE Without(_, _)
Without(games, name) ==
    IF games = <<>> THEN <<>>
    ELSE IF games[Len(games)].name = name
    THEN Without(SubSeq(games, 1, Len(games) - 1), name)
    ELSE Append(Without(SubSeq(games, 1, Len(games) - 1), name), games[Len(games)])

RECURSIVE SumOver(_, _)
SumOver(players, keys) ==
    IF keys = {} THEN 0
    ELSE LET k == CHOOSE k \in keys : TRUE
         IN Get(players, k) + SumOver(players, keys \ {k})

\* C1: when no stored session has the name of the current game, go_back
\* appends exactly one entry of that name, with the players in memory, after
\* the stored ones; otherwise it gives the first stored session of that
\* name the players in memory, and every other entry and the number of
\* entries stay as they were.
C1_UpsertByName ==
    [][(GameScreen_go_back /\ raised' = "") =>
         LET before == file.games
             after == file'.games
             X == Cur.name
         IN IF CountNamed(before, X) = 0
            THEN /\ Len(after) = Len(before) + 1
                 /\ CountNamed(after, X) = 1
                 /\ SubSeq(after, 1, Len(before)) = before
                 /\ after[Len(after)].name = X
                 /\ after[Len(after)].players = Cur.players
            ELSE /\ Len(after) = Len(before)
                 /\ \E i \in DOMAIN before :
                       /\ before[i].name = X
                       /\ \A j \in 1..(i - 1) : before[j].name # X
                       /\ after[i].name = X
                       /\ after[i].players = Cur.players
                       /\ \A j \in DOMAIN before \ {i} : after[j] = before[j]]_vars

\* go_back has just replaced the players of a stored session with players
\* added in memory, in a store where an earlier go_back appended the
\* session renamed to Friday.
C1_Witness ==
    /\ screen = "home"
    /\ last_save = [handler |-> "go_back", stored |-> Len(file.games)]
    /\ Cur.players # <<>>
    /\ \E i \in DOMAIN file.games :
          file.games[i].name = Cur.name /\ file.games[i].players = Cur.players
    /\ CountNamed(file.games, "Friday") = 1
    /\ Cur.name # "Friday"

\* C2: saving the edit-player popup with the player's own name reports no
\* error.
C2_RenameToSelfSucceeds ==
    ~(/\ popup.kind = "edit_player"
      /\ strip(popup.name_input) = popup.player_name
      /\ popup.error_label # "")

\* C3: set_new_name never loses or changes another player: the number of
\* players stays, every player but the renamed one keeps name and score, a
\* renamed player keeps the score; and a new name that another player has
\* is rejected with the error label set and the players as they were.
C3_RenameToExistingRejected ==
    [][edit_player_name_set_new_name =>
         LET before == Cur.players
             after == current_game'[1].players
             a == popup.player_name
             b == strip(popup'.name_input)
         IN /\ Len(after) = Len(before)
            /\ \A k \in Keys(before) \ {a} : Has(after, k) /\ Get(after, k) = Get(before, k)
            /\ Cardinality(Keys(after)) = Len(after)
            /\ SumOver(after, Keys(after)) = SumOver(before, Keys(before))
            /\ (popup'.kind = "edit_player" /\ b # a /\ Has(before, b)) =>
                  /\ popup'.error_label = "Player name already exists!"
                  /\ after = before
                  /\ raised' = ""]_vars

\* The popup of a player with a score has rejected the name of another
\* player, and the player still has the score.
C3_Witness ==
    /\ popup.kind = "edit_player"
    /\ popup.error_label = "Player name already exists!"
    /\ strip(popup.name_input) # popup.player_name
    /\ Has(Cur.players, strip(popup.name_input))
    /\ Has(Cur.players, popup.player_name)
    /\ Get(Cur.players, popup.player_name) # 0

\* C4: add_player of a name that is in players raises the already-exists
\* ValueError and leaves players as it was; add_player of a name that is not
\* adds it last with score 0 and leaves the other entries as they were.
C4_AddPlayer ==
    [][call_add_player =>
         \E n \in GamePlayerNames :
            IF Has(Cur.players, n)
            THEN raised' = AlreadyExists(n) /\ current_game' = current_game
            ELSE /\ raised' = ""
                 /\ current_game'[1].players = Append(Cur.players, [key |-> n, value |-> 0])
                 /\ current_game'[1].name = Cur.name]_vars

\* add_player of Ann has just failed, and Ann still has a score that is not 0.
C4_Witness ==
    /\ raised = AlreadyExists("Ann")
    /\ Len(Cur.players) = 2
    /\ Has(Cur.players, "Ann")
    /\ Get(Cur.players, "Ann") # 0

\* C5: the name start_new_game gives the new session is the name of no
\* stored session.
C5_NewGameNameIsFresh ==
    [][(HomeScreen_start_new_game /\ raised' = "") =>
         CountNamed(file.games, current_game'[1].name) = 0]_vars

\* C6: get_total_score is the sum of the scores in players, and 0 when
\* there are no players.
C6_TotalIsSum ==
    current_game # <<>> =>
        /\ Game_get_total_score(Cur.players) = SumOver(Cur.players, Keys(Cur.players))
        /\ (Cur.players = <<>> => Game_get_total_score(Cur.players) = 0)

\* Two players with scores below zero, after update_score of a player that
\* is not there has failed.
C6_Witness ==
    /\ Len(Cur.players) = 2
    /\ \A i \in DOMAIN Cur.players : Cur.players[i].value < 0
    /\ Game_get_total_score(Cur.players) < -1
    /\ raised = DoesNotExist("Cy")

\* C7: while games.json is absent or holds anything but a list of sessions,
\* no load of it raises, and the home screen lists no game.
C7_LoadAllNeverRaises ==
    file.kind # "games" => (raised # "KeyError" /\ home_games = <<>>)

\* C8: delete_game stores the stored sessions without those that have the
\* name of the current game, the others in their order; when none has the
\* name, what is stored stays as it was.
C8_DeleteByName ==
    [][(delete_game /\ raised' = "") =>
         LET before == file.games
             after == file'.games
             X == Cur.name
         IN /\ after = Without(before, X)
            /\ CountNamed(after, X) = 0
            /\ Len(after) = Len(before) - CountNamed(before, X)
            /\ (CountNamed(before, X) = 0 => after = before)]_vars

\* delete_game has just removed two or more sessions and kept another.
C8_Witness ==
    /\ screen = "home"
    /\ last_save.handler = "delete_game"
    /\ last_save.stored >= Len(file.games) + 2
    /\ Len(file.games) >= 1
    /\ CountNamed(file.games, Cur.name) = 0

\* C9: after a rename of the current session to a name no stored session
\* has, go_back leaves the number of stored sessions as it was, with one
\* entry of the new name and none of the old name of that session.
C9_RenameThenGoBack ==
    [][(/\ GameScreen_go_back
        /\ raised' = ""
        /\ last_save.handler = "edit_game_name"
        /\ CountNamed(file.games, Cur.name) = 0
        /\ \E i \in DOMAIN file.games : file.games[i].timestamp = Cur.timestamp) =>
         /\ Len(file'.games) = Len(file.games)
         /\ CountNamed(file'.games, Cur.name) = 1
         /\ \A i \in DOMAIN file'.games :
               file'.games[i].timestamp = Cur.timestamp => file'.games[i].name = Cur.name]_vars

\* C10: add_player never raises the already-exists ValueError: the name it
\* makes is not in players.
C10_AddPlayerNeverRaises ==
    current_game # <<>> => raised # AlreadyExists(next_player_name(Cur.players))

====
